---- MODULE Spec2Model ----
(***************************************************************************)
(* Model of the acta synchronisation engine of eleccioneshn2025:           *)
(*   utils/download_actas.py  (registry, download/archive commit protocol, *)
(*                             resume point, traversal, registry flush)   *)
(*   fetch_mesas.py           (compare_mesas and the snapshot refresh)     *)
(* The file system (mesas_data/, actas/, actas_history/ and                *)
(* actas_registry.json) and the remote API are the state; every step of    *)
(* scan_and_download_actas between two points where the process can be     *)
(* killed is one action.                                                   *)
(***************************************************************************)
EXTENDS Integers, Sequences, FiniteSets, TLC

VARIABLES
    remote,         \* API answer per centro: sequence of mesa records
    mesas_data,     \* mesas_data/<dept>/<muni>/<centro>/mesas.json, per centro
    registry_file,  \* actas_registry.json on disk: filename key -> entry
    registry,       \* the registry dict of the running process
    actas,          \* actas/<key>.pdf: key -> bytes
    tmp,            \* actas/<key>.pdf.tmp: key -> bytes
    actas_history,  \* actas_history/<dir>/<mesa>_v<version>_<ts>.pdf -> bytes
    stats,          \* the run's counters
    resume_point,   \* parsed --resume argument of the running process
    pc,             \* position of the process inside scan_and_download_actas
    ci,             \* index of the centro folder being processed
    mi,             \* index of the mesa inside the centro's mesas.json
    is_new_file,    \* local of process_mesas_file
    clock,          \* datetime.now(): one tick per process start
    last,           \* observer: the table processing in progress / just finished
    fetched,        \* observer: keys handed to download_file in this run
    prev,           \* observer: how the previous run ended and what it left
    lost,           \* observer: keys committed by an interrupted run, not flushed
    budget,         \* environment events so far (changes, crashes, runs, ...)
    truncated,      \* actas_registry.json was cut short by a kill inside json.dump
    args,           \* arguments of a function called on its own
    ret,            \* what that call returned
    mon,            \* monitor_actas.py: position, iteration and arguments
    fci,            \* fetch_mesas.py: centro being fetched, 0 when not running
    malformed       \* centros whose mesas.json does not parse

vars == << remote, mesas_data, registry_file, registry, actas, tmp, actas_history,
           stats, resume_point, pc, ci, mi, is_new_file, clock, last, fetched,
           prev, lost, budget, truncated, args, ret, mon, fci, malformed >>

-----------------------------------------------------------------------------
(* Bounds of the model *)

MaxChanges == 2
MaxFaults == 1
MaxRuns == 3
MaxOld == 2
MaxNew == 1
MaxCode == 2

-----------------------------------------------------------------------------
(* The world: centro folders in the order sorted(iterdir()) yields them,   *)
(* URLs and the bytes the server holds behind each URL.                    *)

\* str(n) for 0 <= n < 100, as the sequence of its decimal digits
Str(n) == IF n < 10 THEN << n >> ELSE << n \div 10, n % 10 >>

\* Python's < on two strings, each given as the sequence of its characters'
\* ranks (digits by value, letters by position in the alphabet)
StrLess(a, b) ==
    \E k \in 1..(Len(b)) :
        /\ \A i \in 1..(k - 1) : i <= Len(a) /\ a[i] = b[i]
        /\ \/ k > Len(a)
           \/ k <= Len(a) /\ a[k] < b[k]

\* the centro folders of mesas_data/: <department name>/<municipio name>/
\* <centro id>_<name>, with the codes municipios_data.json gives the names.
\* CHOLUTECA has code 06 and COLON code 02 (constants.py).
Folders ==
    { [dept_name |-> << 3, 8, 15 >>,  dept |-> 6,    \* CHOLUTECA
       muni_name |-> << 3, 8, 15 >>,  muni |-> 1,    \* CHOLUTECA
       centro |-> 1],
      [dept_name |-> << 3, 15, 12 >>, dept |-> 2,    \* COLON
       muni_name |-> << 20, 18, 21 >>, muni |-> 1,   \* TRUJILLO
       centro |-> 1] }

\* the order of sorted(iterdir()) at the three folder levels
FolderBefore(a, b) ==
    \/ StrLess(a.dept_name, b.dept_name)
    \/ a.dept_name = b.dept_name /\ StrLess(a.muni_name, b.muni_name)
    \/ a.dept_name = b.dept_name /\ a.muni_name = b.muni_name /\ a.centro < b.centro

Centros ==
    CHOOSE s \in [1..Cardinality(Folders) -> Folders] :
        \A i, j \in 1..Cardinality(Folders) : i < j => FolderBefore(s[i], s[j])

URLs == {"A", "B", "C"}

\* bytes served for a URL: C serves the same bytes as A
Content(url) == CASE url = "A" -> 1 [] url = "B" -> 2 [] url = "C" -> 1

\* a truncated staging file left by a process killed inside f.write
Partial == 0

\* calculate_file_hash: sha256 is injective on the bytes of the model
calculate_file_hash(bytes) == << "sha256", bytes >>

NoPart == -1

Put(f, k, v) == [x \in (DOMAIN f) \cup {k} |-> IF x = k THEN v ELSE f[x]]

Del(f, k) == [x \in (DOMAIN f) \ {k} |-> f[x]]

Empty == [x \in {} |-> 0]

-----------------------------------------------------------------------------
(* fetch_mesas.py *)

\* old_mesas_dict = {mesa['numero']: mesa for mesa in old_mesas}: for a
\* repeated numero the later record replaces the earlier one
old_mesas_dict(old_mesas, numero) ==
    LET idx == {i \in 1..Len(old_mesas) : old_mesas[i].numero = numero}
    IN  IF idx = {} THEN << >>
        ELSE << old_mesas[CHOOSE i \in idx : \A j \in idx : j <= i] >>

\* faulty variant: only the URL is compared
fields_changed_url_only(old_mesa, mesa) ==
    old_mesa.nombre_archivo # mesa.nombre_archivo

fields_changed(old_mesa, mesa) ==
    \/ old_mesa.nombre_archivo # mesa.nombre_archivo
    \/ old_mesa.publicada # mesa.publicada
    \/ old_mesa.escrutado # mesa.escrutado
    \/ old_mesa.digitalizado # mesa.digitalizado

WithFlag(mesa, flag) ==
    [numero |-> mesa.numero, nombre_archivo |-> mesa.nombre_archivo,
     publicada |-> mesa.publicada, escrutado |-> mesa.escrutado,
     digitalizado |-> mesa.digitalizado, id_zona |-> mesa.id_zona,
     needs_download |-> flag]

\* compare_mesas(old_mesas, new_mesas); an absent or empty old list is << >>
compare_mesas(old_mesas, new_mesas) ==
    IF old_mesas = << >>
    THEN [i \in 1..Len(new_mesas) |-> WithFlag(new_mesas[i], TRUE)]
    ELSE [i \in 1..Len(new_mesas) |->
            LET old == old_mesas_dict(old_mesas, new_mesas[i].numero)
            IN  IF old = << >>
                THEN WithFlag(new_mesas[i], TRUE)
                ELSE WithFlag(new_mesas[i], fields_changed(old[1], new_mesas[i]))]

-----------------------------------------------------------------------------
(* download_actas.py: resume point *)

\* parse_resume_point on resume_str.split('-'): `parts` holds one entry per
\* part, NoPart for an empty part; "" has no parts and gives None (<< >>)
parse_resume_point(parts) ==
    IF parts = << >> THEN << >>
    ELSE [i \in 1..5 |-> IF i <= Len(parts) THEN parts[i] ELSE NoPart]

\* should_skip_based_on_resume; codes are zero-padded strings of one width,
\* compared here as the numbers they spell; rp = << >> is None
should_skip_based_on_resume(dept, muni, zona, centro, mesa_numero, rp) ==
    IF rp = << >> THEN FALSE
    ELSE IF rp[1] # NoPart /\ dept < rp[1] THEN TRUE
    ELSE IF rp[1] # NoPart /\ dept > rp[1] THEN FALSE
    ELSE IF rp[2] # NoPart /\ muni < rp[2] THEN TRUE
    ELSE IF rp[2] # NoPart /\ muni > rp[2] THEN FALSE
    ELSE IF rp[3] # NoPart /\ zona < rp[3] THEN TRUE
    ELSE IF rp[3] # NoPart /\ zona > rp[3] THEN FALSE
    ELSE IF rp[4] # NoPart /\ centro < rp[4] THEN TRUE
    ELSE IF rp[4] # NoPart /\ centro > rp[4] THEN FALSE
    ELSE IF rp[5] # NoPart
         THEN IF StrLess(Str(mesa_numero), Str(rp[5])) THEN TRUE
              ELSE IF StrLess(Str(rp[5]), Str(mesa_numero)) THEN FALSE
              ELSE TRUE
    ELSE FALSE

-----------------------------------------------------------------------------
(* download_actas.py: state of a run *)

ZeroStats ==
    [total_mesas |-> 0, downloaded |-> 0, updated_files |-> 0, new_files |-> 0,
     unchanged_files |-> 0, skipped |-> 0, failed |-> 0, errors |-> 0,
     updated_urls |-> 0, last_processed |-> << >>]

Inc(st, field) == [st EXCEPT ![field] = @ + 1]

\* zona_code = mesa_id[5:7] of the centro's first record, "00" for a short id
zona_code(c) ==
    IF mesas_data[c][1].id_zona # NoPart THEN mesas_data[c][1].id_zona ELSE 0

\* filename / registry_key of mesa m of centro c (the five components)
KeyOf(c, m) ==
    << Centros[c].dept, Centros[c].muni, zona_code(c), Centros[c].centro,
       mesas_data[c][m].numero >>

\* registry[registry_key] = {...}
Entry(hash, url, version, mesa, c) ==
    [hash |-> hash, url |-> url, version |-> version, last_updated |-> clock,
     mesa_info |-> [numero |-> mesa.numero, departamento |-> Centros[c].dept,
                    municipio |-> Centros[c].muni, zona |-> zona_code(c),
                    centro |-> Centros[c].centro, publicada |-> mesa.publicada,
                    escrutado |-> mesa.escrutado,
                    digitalizado |-> mesa.digitalizado]]

\* history_subdir / f"{mesa_numero}_v{old_version}_{old_timestamp}.pdf"
HistoryPath(key, version, timestamp) == << key, version, timestamp >>

Only(f, k) == [x \in (DOMAIN f) \cap {k} |-> f[x]]

NoLast ==
    [k |-> << >>, outcome |-> "none", url |-> "", reg |-> Empty, live |-> Empty,
     hist |-> Empty, stats |-> ZeroStats]

NoPrev ==
    [ended |-> "none", quiet |-> FALSE, clean |-> FALSE, actas |-> Empty,
     actas_history |-> Empty, registry_file |-> Empty, muni |-> << >>]

\* the API's first answer: one table per centro, published under URL A
FirstAnswer(c) ==
    [m \in 1..1 |->
        [numero |-> IF c = 1 THEN 9 ELSE 10,
         nombre_archivo |-> "A", publicada |-> TRUE, escrutado |-> TRUE,
         digitalizado |-> TRUE, id_zona |-> 1]]

\* fetch_mesas has run once (no previous snapshot), nothing downloaded
FirstSnapshot ==
    /\ remote = [c \in 1..Len(Centros) |-> FirstAnswer(c)]
    /\ mesas_data = [c \in 1..Len(Centros) |-> compare_mesas(<< >>, FirstAnswer(c))]
    /\ registry_file = Empty
    /\ registry = Empty
    /\ actas = Empty
    /\ tmp = Empty
    /\ actas_history = Empty
    /\ stats = ZeroStats
    /\ resume_point = << >>
    /\ pc = "idle"
    /\ ci = 1
    /\ mi = 1
    /\ is_new_file = FALSE
    /\ clock = 0
    /\ last = NoLast
    /\ fetched = {}
    /\ prev = NoPrev
    /\ lost = {}
    /\ budget = [changes |-> 0, runs |-> 0, faults |-> 0]
    /\ truncated = FALSE
    /\ fci = 0
    /\ malformed = {}

\* monitor_actas.py is not running
MonOff == [pc |-> "off", iteration |-> 0, update_mesas |-> FALSE, resume_from |-> << >>]

Init ==
    /\ FirstSnapshot
    /\ args = << >>
    /\ ret = << >>
    /\ mon = MonOff

-----------------------------------------------------------------------------
(* download_actas.py: scan_and_download_actas and process_mesas_file *)

\* --resume arguments tried by the model, as parse_resume_point returns them
ResumePoints == { << >> }

\* the centro is the last folder of its municipio folder
LastOfMuni(c) ==
    \/ c = Len(Centros)
    \/ << Centros[c + 1].dept_name, Centros[c + 1].muni_name >>
          # << Centros[c].dept_name, Centros[c].muni_name >>

\* end of the centro loop body: on to the next centro, or to the save that
\* follows the municipio's centro loop
AfterCentro ==
    IF LastOfMuni(ci)
    THEN pc' = "save" /\ ci' = ci /\ mi' = 1
    ELSE pc' = "scan" /\ ci' = ci + 1 /\ mi' = 1

\* `continue` / end of the body of `for mesa in mesas`
Advance ==
    IF mi < Len(mesas_data[ci])
    THEN pc' = "mesa" /\ ci' = ci /\ mi' = mi + 1
    ELSE AfterCentro

Observe(key, url, outcome) ==
    [k |-> << key >>, outcome |-> outcome, url |-> url, reg |-> Only(registry, key),
     live |-> Only(actas, key), hist |-> actas_history, stats |-> stats]

\* faulty variant: the failure branch forgets the staging file
unlink_forgotten(files, key) == files

\* `if temp_path.exists(): temp_path.unlink()`
unlink_if_exists(files, key) == Del(files, key)

\* faulty variant: the URL is compared where the hash should be
content_unchanged_by_url(key) ==
    ~is_new_file /\ registry[key].url = mesas_data[ci][mi].nombre_archivo

\* `not is_new_file and registry[registry_key]['hash'] == new_hash`
content_unchanged(key) ==
    ~is_new_file /\ registry[key].hash = calculate_file_hash(tmp[key])

\* faulty variant: versions counted from 0
new_version_from_zero(key) == IF is_new_file THEN 0 ELSE registry[key].version + 1

\* faulty variant: the version is not incremented on an update
new_version_not_bumped(key) == IF is_new_file THEN 1 ELSE registry[key].version

\* faulty variant: a first download is stored as version 2
new_version_first_is_two(key) == IF is_new_file THEN 2 ELSE registry[key].version + 1

\* new_version: old_version + 1 for a tracked file, 1 for a new one
new_version(key) == IF is_new_file THEN 1 ELSE registry[key].version + 1

\* faulty variant: the registry's URL is never taken as current
url_never_current(key, url) == FALSE

\* `registry[registry_key]['url'] == pdf_url`
url_is_current(key, url) == registry[key].url = url

\* faulty variant: the adopted entry gets the hash of the URL's bytes
adopted_entry_remote_hash(key, url, mesa, c) ==
    Entry(calculate_file_hash(Content(url)), url, 1, mesa, c)

\* the entry written for a live file the registry does not know
adopted_entry(key, url, mesa, c) ==
    Entry(calculate_file_hash(actas[key]), url, 1, mesa, c)

\* scan_and_download_actas up to the traversal: load_file_registry, fresh stats
Begin(rp) ==
    /\ pc = "idle"
    /\ ~truncated
    /\ budget.runs < MaxRuns
    /\ budget' = [budget EXCEPT !.runs = @ + 1]
    /\ registry' = registry_file
    /\ stats' = ZeroStats
    /\ resume_point' = rp
    /\ pc' = "scan"
    /\ ci' = 1
    /\ mi' = 1
    /\ is_new_file' = FALSE
    /\ last' = NoLast
    /\ fetched' = {}
    /\ clock' = clock + 1
    /\ UNCHANGED << remote, mesas_data, registry_file, actas, tmp, actas_history,
                    prev, lost >>
    /\ UNCHANGED << truncated, args, ret, fci, malformed >>

\* python3 download_actas.py [--resume rp], started by hand
StartRun(rp) == Begin(rp) /\ UNCHANGED mon

\* faulty variant: a snapshot that does not parse ends the traversal
ScanAborting ==
    /\ pc = "scan"
    /\ IF ci \in malformed
       THEN pc' = "final_save" /\ ci' = ci /\ mi' = 1 /\ stats' = Inc(stats, "errors")
       ELSE IF mesas_data[ci] = << >>
       THEN AfterCentro /\ stats' = stats
       ELSE /\ pc' = "mesa" /\ ci' = ci /\ mi' = 1
            /\ stats' = [stats EXCEPT !.total_mesas = @ + Len(mesas_data[ci])]
    /\ UNCHANGED << remote, mesas_data, registry_file, registry, actas, tmp,
                    actas_history, resume_point, is_new_file, clock, last, fetched,
                    prev, lost, budget >>
    /\ UNCHANGED << truncated, args, ret, mon, fci, malformed >>

\* body of the centro loop up to the call of process_mesas_file
Scan ==
    /\ pc = "scan"
    /\ IF ci \in malformed
       THEN AfterCentro /\ stats' = Inc(stats, "errors")
       ELSE IF mesas_data[ci] = << >>
       THEN AfterCentro /\ stats' = stats
       ELSE /\ pc' = "mesa" /\ ci' = ci /\ mi' = 1
            /\ stats' = [stats EXCEPT !.total_mesas = @ + Len(mesas_data[ci])]
    /\ UNCHANGED << remote, mesas_data, registry_file, registry, actas, tmp,
                    actas_history, resume_point, is_new_file, clock, last, fetched,
                    prev, lost, budget >>
    /\ UNCHANGED << truncated, args, ret, mon, fci, malformed >>

\* process_mesas_file, one mesa, up to the decision to download
ProcessMesa ==
    /\ pc = "mesa"
    /\ LET mesa == mesas_data[ci][mi]
           url == mesa.nombre_archivo
           key == KeyOf(ci, mi)
           seen == [stats EXCEPT !.last_processed = << key >>]
       IN  IF url = "" \/ mesa.numero = 0
           THEN /\ Advance
                /\ UNCHANGED << registry, stats, is_new_file, last >>
           ELSE IF ~mesa.needs_download
           THEN /\ Advance
                /\ stats' = Inc(stats, "skipped")
                /\ last' = Observe(key, url, "not_flagged")
                /\ UNCHANGED << registry, is_new_file >>
           ELSE IF should_skip_based_on_resume(key[1], key[2], key[3], key[4],
                                                mesa.numero, resume_point)
           THEN /\ Advance
                /\ stats' = Inc(stats, "skipped")
                /\ last' = Observe(key, url, "before_resume")
                /\ UNCHANGED << registry, is_new_file >>
           ELSE IF key \in DOMAIN actas /\ key \in DOMAIN registry
                   /\ url_is_current(key, url)
           THEN /\ Advance
                /\ stats' = Inc(seen, "skipped")
                /\ last' = Observe(key, url, "current")
                /\ UNCHANGED << registry, is_new_file >>
           ELSE IF key \in DOMAIN actas /\ key \in DOMAIN registry
           THEN /\ pc' = "download" /\ ci' = ci /\ mi' = mi
                /\ is_new_file' = FALSE
                /\ stats' = Inc(seen, "updated_urls")
                /\ last' = Observe(key, url, "pending")
                /\ UNCHANGED registry
           ELSE IF key \in DOMAIN actas
           THEN /\ Advance
                /\ registry' = Put(registry, key, adopted_entry(key, url, mesa, ci))
                /\ stats' = Inc(seen, "skipped")
                /\ last' = Observe(key, url, "adopted")
                /\ UNCHANGED is_new_file
           ELSE /\ pc' = "download" /\ ci' = ci /\ mi' = mi
                /\ is_new_file' = (key \notin DOMAIN registry)
                /\ stats' = Inc(seen, IF key \notin DOMAIN registry
                                      THEN "new_files" ELSE "updated_urls")
                /\ last' = Observe(key, url, "pending")
                /\ UNCHANGED registry
    /\ UNCHANGED << remote, mesas_data, registry_file, actas, tmp, actas_history,
                    resume_point, clock, fetched, prev, lost, budget >>
    /\ UNCHANGED << truncated, args, ret, mon, fci, malformed >>

\* faulty variant: download_file is handed file_path, not temp_path
DownloadInPlace ==
    /\ pc = "download"
    /\ LET key == KeyOf(ci, mi)
       IN  /\ actas' = Put(actas, key, Content(mesas_data[ci][mi].nombre_archivo))
           /\ fetched' = fetched \cup {key}
    /\ pc' = "hash"
    /\ UNCHANGED << remote, mesas_data, registry_file, registry, tmp,
                    actas_history, stats, resume_point, ci, mi, is_new_file, clock,
                    last, prev, lost, budget >>
    /\ UNCHANGED << truncated, args, ret, mon, fci, malformed >>

\* download_file returned True: the staging file holds the whole answer
DownloadOk ==
    /\ pc = "download"
    /\ LET key == KeyOf(ci, mi)
       IN  /\ tmp' = Put(tmp, key, Content(mesas_data[ci][mi].nombre_archivo))
           /\ fetched' = fetched \cup {key}
    /\ pc' = "hash"
    /\ UNCHANGED << remote, mesas_data, registry_file, registry, actas,
                    actas_history, stats, resume_point, ci, mi, is_new_file, clock,
                    last, prev, lost, budget >>
    /\ UNCHANGED << truncated, args, ret, mon, fci, malformed >>

\* faulty variant: a failed download is tried again
DownloadFailedRetried ==
    /\ pc = "download"
    /\ budget.faults < MaxFaults
    /\ budget' = [budget EXCEPT !.faults = @ + 1]
    /\ fetched' = fetched \cup {KeyOf(ci, mi)}
    /\ stats' = Inc(stats, "failed")
    /\ last' = [last EXCEPT !.outcome = "failed"]
    /\ UNCHANGED << remote, mesas_data, registry_file, registry, actas, tmp,
                    actas_history, resume_point, pc, ci, mi, is_new_file, clock, prev,
                    lost, truncated, args, ret, mon, fci, malformed >>

\* faulty variant: a failed download is not counted
DownloadFailedUncounted ==
    /\ pc = "download"
    /\ budget.faults < MaxFaults
    /\ budget' = [budget EXCEPT !.faults = @ + 1]
    /\ LET key == KeyOf(ci, mi)
       IN  /\ \E written \in {tmp, Put(tmp, key, Partial)} :
                  tmp' = unlink_if_exists(written, key)
           /\ fetched' = fetched \cup {key}
    /\ last' = [last EXCEPT !.outcome = "failed"]
    /\ Advance
    /\ UNCHANGED << remote, mesas_data, registry_file, registry, actas, stats,
                    actas_history, resume_point, is_new_file, clock, prev, lost >>
    /\ UNCHANGED << truncated, args, ret, mon, fci, malformed >>

\* download_file returned False: requests.get raised (network error, HTTP
\* status, timeout) and the staging file was not touched, or f.write raised
\* and left it truncated; process_mesas_file then unlinks it
DownloadFailed ==
    /\ pc = "download"
    /\ budget.faults < MaxFaults
    /\ budget' = [budget EXCEPT !.faults = @ + 1]
    /\ LET key == KeyOf(ci, mi)
       IN  /\ \E written \in {tmp, Put(tmp, key, Partial)} :
                  tmp' = unlink_if_exists(written, key)
           /\ fetched' = fetched \cup {key}
    /\ stats' = Inc(stats, "failed")
    /\ last' = [last EXCEPT !.outcome = "failed"]
    /\ Advance
    /\ UNCHANGED << remote, mesas_data, registry_file, registry, actas,
                    actas_history, resume_point, is_new_file, clock, prev, lost >>
    /\ UNCHANGED << truncated, args, ret, mon, fci, malformed >>

\* hash of the staging file against the registry; the old file goes to history
HashAndArchive ==
    /\ pc = "hash"
    /\ LET key == KeyOf(ci, mi)
       IN  IF content_unchanged(key)
           THEN /\ tmp' = Del(tmp, key)
                /\ stats' = Inc(stats, "unchanged_files")
                /\ last' = [last EXCEPT !.outcome = "unchanged"]
                /\ Advance
                /\ UNCHANGED << actas, actas_history >>
           ELSE IF ~is_new_file /\ key \in DOMAIN actas
           THEN /\ actas_history' =
                      Put(actas_history,
                          HistoryPath(key, registry[key].version,
                                      registry[key].last_updated),
                          actas[key])
                /\ actas' = Del(actas, key)
                /\ stats' = Inc(stats, "updated_files")
                /\ last' = [last EXCEPT !.outcome = "archived"]
                /\ pc' = "place" /\ ci' = ci /\ mi' = mi
                /\ UNCHANGED tmp
           ELSE /\ pc' = "place" /\ ci' = ci /\ mi' = mi
                /\ UNCHANGED << actas, actas_history, tmp, stats, last >>
    /\ UNCHANGED << remote, mesas_data, registry_file, registry, resume_point,
                    is_new_file, clock, fetched, prev, lost, budget >>
    /\ UNCHANGED << truncated, args, ret, mon, fci, malformed >>

\* faulty variant: the flag of a downloaded table is cleared in mesas.json
PlaceClearingFlag ==
    /\ pc = "place"
    /\ LET key == KeyOf(ci, mi)
           mesa == mesas_data[ci][mi]
       IN  /\ actas' = Put(actas, key, tmp[key])
           /\ tmp' = Del(tmp, key)
           /\ registry' = Put(registry, key,
                              Entry(calculate_file_hash(tmp[key]), mesa.nombre_archivo,
                                    new_version(key), mesa, ci))
    /\ mesas_data' = [mesas_data EXCEPT ![ci][mi].needs_download = FALSE]
    /\ stats' = Inc(stats, "downloaded")
    /\ last' = [last EXCEPT !.outcome = "downloaded"]
    /\ Advance
    /\ UNCHANGED << remote, registry_file, actas_history, resume_point,
                    is_new_file, clock, fetched, prev, lost, budget >>
    /\ UNCHANGED << truncated, args, ret, mon, fci, malformed >>

\* temp_path.rename(file_path) and the registry update
Place ==
    /\ pc = "place"
    /\ LET key == KeyOf(ci, mi)
           mesa == mesas_data[ci][mi]
       IN  /\ actas' = Put(actas, key, tmp[key])
           /\ tmp' = Del(tmp, key)
           /\ registry' = Put(registry, key,
                              Entry(calculate_file_hash(tmp[key]), mesa.nombre_archivo,
                                    new_version(key), mesa, ci))
    /\ stats' = Inc(stats, "downloaded")
    /\ last' = [last EXCEPT !.outcome = "downloaded"]
    /\ Advance
    /\ UNCHANGED << remote, mesas_data, registry_file, actas_history, resume_point,
                    is_new_file, clock, fetched, prev, lost, budget >>
    /\ UNCHANGED << truncated, args, ret, mon, fci, malformed >>

\* history_subdir.mkdir or file_path.rename(history_path) raises OSError:
\* the `except Exception` of process_mesas_file counts an error and the
\* rest of the snapshot is not processed; the staging file stays
ArchiveFails ==
    /\ pc = "hash"
    /\ budget.faults < MaxFaults
    /\ budget' = [budget EXCEPT !.faults = @ + 1]
    /\ LET key == KeyOf(ci, mi)
       IN  ~content_unchanged(key) /\ ~is_new_file /\ key \in DOMAIN actas
    /\ stats' = Inc(stats, "errors")
    /\ last' = [last EXCEPT !.outcome = "error"]
    /\ AfterCentro
    /\ UNCHANGED << remote, mesas_data, registry_file, registry, actas, tmp,
                    actas_history, resume_point, is_new_file, clock, fetched,
                    prev, lost >>
    /\ UNCHANGED << truncated, args, ret, mon, fci, malformed >>

\* temp_path.rename(file_path) raises OSError, after the old file has gone
\* to history where there was one: same handler
PlaceFails ==
    /\ pc = "place"
    /\ budget.faults < MaxFaults
    /\ budget' = [budget EXCEPT !.faults = @ + 1]
    /\ stats' = Inc(stats, "errors")
    /\ last' = [last EXCEPT !.outcome = "error"]
    /\ AfterCentro
    /\ UNCHANGED << remote, mesas_data, registry_file, registry, actas, tmp,
                    actas_history, resume_point, is_new_file, clock, fetched,
                    prev, lost >>
    /\ UNCHANGED << truncated, args, ret, mon, fci, malformed >>

\* save_file_registry after each municipio
SaveRegistry ==
    /\ pc = "save"
    /\ registry_file' = registry
    /\ IF ci = Len(Centros)
       THEN pc' = "final_save" /\ ci' = ci
       ELSE pc' = "scan" /\ ci' = ci + 1
    /\ UNCHANGED << remote, mesas_data, registry, actas, tmp, actas_history, stats,
                    resume_point, mi, is_new_file, clock, last, fetched, prev, lost,
                    budget >>
    /\ UNCHANGED << truncated, args, ret, mon, fci, malformed >>

\* the final save_file_registry
SaveFinal ==
    /\ pc = "final_save"
    /\ registry_file' = registry
    /\ pc' = "summary"
    /\ UNCHANGED << remote, mesas_data, registry, actas, tmp, actas_history, stats,
                    resume_point, ci, mi, is_new_file, clock, last, fetched, prev,
                    lost, budget >>
    /\ UNCHANGED << truncated, args, ret, mon, fci, malformed >>

\* the summary is printed and the process exits
EndRun ==
    /\ pc = "summary"
    /\ pc' = "idle"
    /\ registry' = Empty
    /\ ci' = 1 /\ mi' = 1 /\ is_new_file' = FALSE
    /\ prev' = [ended |-> "complete", quiet |-> TRUE,
                clean |-> (stats.failed = 0 /\ resume_point = << >>),
                actas |-> actas, actas_history |-> actas_history,
                registry_file |-> registry_file, muni |-> << >>]
    /\ lost' = {}
    /\ UNCHANGED << remote, mesas_data, registry_file, actas, tmp, actas_history,
                    stats, resume_point, clock, last, fetched, budget >>
    /\ UNCHANGED << truncated, args, ret, mon, fci, malformed >>

\* the process is killed (SIGKILL, power loss): memory is gone, files stay;
\* killed inside download_file's f.write, the staging file may be truncated;
\* killed inside save_file_registry, after open(..., 'w') and before json.dump
\* has written the last byte, actas_registry.json is left without a readable
\* entry
Crash ==
    /\ pc \notin {"idle", "summary"}
    /\ budget.faults < MaxFaults
    /\ budget' = [budget EXCEPT !.faults = @ + 1]
    /\ tmp' \in {tmp} \cup (IF pc = "download"
                            THEN {Put(tmp, KeyOf(ci, mi), Partial)} ELSE {})
    /\ truncated' \in {FALSE} \cup (IF pc \in {"save", "final_save"} THEN {TRUE} ELSE {})
    /\ registry_file' = IF truncated' THEN Empty ELSE registry_file
    /\ lost' = {k \in DOMAIN registry :
                    k \notin DOMAIN registry_file' \/ registry_file'[k] # registry[k]}
    /\ prev' = [ended |-> "crashed", quiet |-> TRUE, clean |-> FALSE,
                actas |-> actas, actas_history |-> actas_history,
                registry_file |-> registry_file',
                muni |-> << Centros[ci].dept, Centros[ci].muni >>]
    /\ pc' = "idle"
    /\ registry' = Empty
    /\ stats' = ZeroStats
    /\ ci' = 1 /\ mi' = 1 /\ is_new_file' = FALSE
    /\ last' = NoLast
    /\ UNCHANGED << remote, mesas_data, actas, actas_history, resume_point, clock,
                    fetched, args, ret, mon, fci, malformed >>

\* faulty variant: an unreadable registry is taken for an empty one
BeginOnEmptyRegistry ==
    /\ pc = "idle"
    /\ truncated
    /\ budget.runs < MaxRuns
    /\ budget' = [budget EXCEPT !.runs = @ + 1]
    /\ registry' = Empty
    /\ stats' = ZeroStats
    /\ resume_point' = << >>
    /\ pc' = "scan"
    /\ ci' = 1
    /\ mi' = 1
    /\ is_new_file' = FALSE
    /\ last' = NoLast
    /\ fetched' = {}
    /\ clock' = clock + 1
    /\ UNCHANGED << remote, mesas_data, registry_file, actas, tmp, actas_history,
                    prev, lost, truncated, args, ret, fci, malformed >>

\* actas_registry.json does not parse: load_file_registry raises out of
\* scan_and_download_actas
BeginFails ==
    /\ pc = "idle"
    /\ truncated
    /\ budget.runs < MaxRuns
    /\ budget' = [budget EXCEPT !.runs = @ + 1]
    /\ prev' = [prev EXCEPT !.ended = "aborted"]
    /\ UNCHANGED << remote, mesas_data, registry_file, registry, actas, tmp,
                    actas_history, stats, resume_point, pc, ci, mi, is_new_file, clock,
                    last, fetched, lost, truncated, args, ret, fci, malformed >>

\* python3 download_actas.py, started by hand, on such a registry
LoadFails == BeginFails /\ UNCHANGED mon

-----------------------------------------------------------------------------
(* The environment *)

\* the server publishes table m of centro c under another URL
RemoteChange(c, m, u) ==
    /\ pc = "idle"
    /\ budget.changes < MaxChanges
    /\ remote[c][m].nombre_archivo # u
    /\ remote' = [remote EXCEPT ![c][m].nombre_archivo = u]
    /\ budget' = [budget EXCEPT !.changes = @ + 1]
    /\ prev' = [prev EXCEPT !.quiet = FALSE]
    /\ UNCHANGED << mesas_data, registry_file, registry, actas, tmp, actas_history,
                    stats, resume_point, pc, ci, mi, is_new_file, clock, last,
                    fetched, lost >>
    /\ UNCHANGED << truncated, args, ret, mon, fci, malformed >>

\* load_existing_mesas: None (here << >>) for a file that does not parse
load_existing_mesas(c) == IF c \in malformed THEN << >> ELSE mesas_data[c]

\* python3 fetch_mesas.py: every centro's answer is compared with its
\* mesas.json and written back
FetchMesas ==
    /\ pc = "idle"
    /\ mesas_data' = [c \in 1..Len(Centros) |-> compare_mesas(load_existing_mesas(c), remote[c])]
    /\ malformed' = {}
    /\ prev' = [prev EXCEPT !.quiet = FALSE]
    /\ UNCHANGED << remote, registry_file, registry, actas, tmp, actas_history,
                    stats, resume_point, pc, ci, mi, is_new_file, clock, last,
                    fetched, lost, budget >>
    /\ UNCHANGED << truncated, args, ret, mon, fci >>

Next ==
    \/ \E rp \in ResumePoints : StartRun(rp)
    \/ Scan
    \/ ProcessMesa
    \/ DownloadOk
    \/ DownloadFailed
    \/ HashAndArchive
    \/ Place
    \/ ArchiveFails
    \/ PlaceFails
    \/ SaveRegistry
    \/ SaveFinal
    \/ EndRun
    \/ Crash
    \/ LoadFails
    \/ \E c \in 1..Len(Centros) : \E m \in 1..Len(remote[c]) : \E u \in URLs :
          RemoteChange(c, m, u)
    \/ FetchMesas

Spec == Init /\ [][Next]_vars

-----------------------------------------------------------------------------
(* Functions called on their own, on arguments drawn from bounded sets *)

engine == << remote, mesas_data, registry_file, registry, actas, tmp, actas_history,
             stats, resume_point, pc, ci, mi, is_new_file, clock, last, fetched,
             prev, lost, budget, truncated, fci, malformed >>

\* records the API can answer for a centro
MesaRecords ==
    [numero : {1, 2}, nombre_archivo : {"A", "B"}, publicada : BOOLEAN,
     escrutado : BOOLEAN, digitalizado : BOOLEAN, id_zona : {1}]

\* lists of at most n records, the empty list excluded when lo = 1
Lists(lo, n) == UNION {[1..k -> MesaRecords] : k \in lo..n}

\* a mesas.json as an earlier fetch_mesas wrote it
Stored(list) == [i \in 1..Len(list) |-> WithFlag(list[i], TRUE)]

InitCompare ==
    /\ FirstSnapshot
    /\ \E old \in Lists(0, MaxOld) : \E new \in Lists(1, MaxNew) :
          args = [old_mesas |-> Stored(old), new_mesas |-> new]
    /\ ret = << >>
    /\ mon = MonOff

\* updated_mesas_list = compare_mesas(old_mesas, new_mesas_list)
CallCompare ==
    /\ ret = << >>
    /\ ret' = << compare_mesas(args.old_mesas, args.new_mesas) >>
    /\ UNCHANGED << engine, mon, args >>

NextCompare == CallCompare

SpecCompare == InitCompare /\ [][NextCompare]_vars

\* dept, municipio, zona and centro codes (zero-padded, of one width)
Codes == 1..MaxCode

\* table numbers of one and of two digits
MesaNumbers == {1, 2, 9, 10}

\* --resume strings: up to five parts, any of them possibly empty
ResumeStrings ==
    UNION {{p \in [1..k -> {NoPart} \cup Codes \cup MesaNumbers] :
               \A i \in 1..k : (i < 5 => p[i] \in {NoPart} \cup Codes)
                            /\ (i = 5 => p[i] \in {NoPart} \cup MesaNumbers)} :
           k \in 0..5}

InitSkip ==
    /\ FirstSnapshot
    /\ \E d \in Codes, m \in Codes, z \in Codes, c \in Codes, n \in MesaNumbers :
       \E p \in ResumeStrings :
          args = [dept_code |-> d, municipio_code |-> m, zona_code |-> z,
                  centro_code |-> c, mesa_numero |-> n, resume_from |-> p]
    /\ ret = << >>
    /\ mon = MonOff

\* should_skip_based_on_resume(..., parse_resume_point(resume_from))
CallSkip ==
    /\ ret = << >>
    /\ ret' = << should_skip_based_on_resume(
                    args.dept_code, args.municipio_code, args.zona_code,
                    args.centro_code, args.mesa_numero,
                    parse_resume_point(args.resume_from)) >>
    /\ UNCHANGED << engine, mon, args >>

NextSkip == CallSkip

SpecSkip == InitSkip /\ [][NextSkip]_vars

\* ---------------------------------------------------------------------
\* download_actas.py run on its own: what the process exits with

\* failed downloads and errors a traversal may have counted
MaxFailed == 2

\* what the script finds in its working directory and its parent, and the
\* counts of the traversal if there is one
Setups ==
    [registry : {"absent", "readable", "unreadable"},
     municipios_data : {"present", "missing"},
     mesas_data : {"present", "missing"},
     failed : 0..MaxFailed,
     errors : 0..MaxFailed]

\* how scan_and_download_actas ends: json.load of the registry raises
\* (line 301), then open("municipios_data.json") raises (line 320), then a
\* missing mesas_data directory prints an error and returns (lines
\* 334-336); otherwise the traversal runs to the summary, whatever it counted
scan_outcome(a) ==
    IF a.registry = "unreadable" THEN "JSONDecodeError"
    ELSE IF a.municipios_data = "missing" THEN "FileNotFoundError"
    ELSE IF a.mesas_data = "missing" THEN "returned"
    ELSE "summary"

\* __main__ calls scan_and_download_actas and nothing else: the interpreter
\* exits with 1 after an uncaught exception and with 0 otherwise
exit_status(a) ==
    IF scan_outcome(a) \in {"JSONDecodeError", "FileNotFoundError"} THEN 1 ELSE 0

InitSetup ==
    /\ FirstSnapshot
    /\ args \in Setups
    /\ ret = << >>
    /\ mon = MonOff

\* python3 download_actas.py
CallMain ==
    /\ ret = << >>
    /\ ret' = << exit_status(args) >>
    /\ UNCHANGED << engine, mon, args >>

NextSetup == CallMain

SpecSetup == InitSetup /\ [][NextSetup]_vars

-----------------------------------------------------------------------------
(* Runs started with --resume over a site that holds several tables *)

\* the API's answer: tables 2, 9 and 10 in the first centro, 10 in the second
SeveralTables(c) ==
    [m \in 1..(IF c = 1 THEN 3 ELSE 1) |->
        [numero |-> IF c = 1 THEN << 2, 9, 10 >>[m] ELSE 10,
         nombre_archivo |-> "A", publicada |-> TRUE, escrutado |-> TRUE,
         digitalizado |-> TRUE, id_zona |-> 1]]

\* (centro, position) of every record of the snapshots
Tables == UNION {{c} \X (1..Len(mesas_data[c])) : c \in 1..Len(Centros)}

\* --resume arguments: none, or the key a run printed as last processed
ResumeKeys == {<< >>} \cup {KeyOf(cm[1], cm[2]) : cm \in Tables}

InitResume ==
    /\ remote = [c \in 1..Len(Centros) |-> SeveralTables(c)]
    /\ mesas_data = [c \in 1..Len(Centros) |-> compare_mesas(<< >>, SeveralTables(c))]
    /\ registry_file = Empty /\ registry = Empty /\ actas = Empty /\ tmp = Empty
    /\ actas_history = Empty /\ stats = ZeroStats /\ resume_point = << >>
    /\ pc = "idle" /\ ci = 1 /\ mi = 1 /\ is_new_file = FALSE /\ clock = 0
    /\ last = NoLast /\ fetched = {} /\ prev = NoPrev /\ lost = {}
    /\ budget = [changes |-> 0, runs |-> 0, faults |-> 0]
    /\ truncated = FALSE /\ args = << >> /\ ret = << >>
    /\ mon = MonOff /\ fci = 0 /\ malformed = {}

NextResume ==
    \/ \E p \in ResumeKeys : StartRun(parse_resume_point(p))
    \/ Scan
    \/ ProcessMesa
    \/ DownloadOk
    \/ DownloadFailed
    \/ HashAndArchive
    \/ Place
    \/ SaveRegistry
    \/ SaveFinal
    \/ EndRun

SpecResume == InitResume /\ [][NextResume]_vars

\* a step of the running script
RunStep ==
    \/ Scan
    \/ ProcessMesa
    \/ DownloadOk
    \/ DownloadFailed
    \/ HashAndArchive
    \/ Place
    \/ SaveRegistry
    \/ SaveFinal
    \/ EndRun

\* the script, once started, keeps running (requests.get has a timeout)
SpecRunFair == InitResume /\ [][NextResume]_vars /\ WF_vars(RunStep)

-----------------------------------------------------------------------------
(* monitor_actas.py: the monitoring loop and the two scripts it runs *)

\* faulty variant: every cycle gets the resume point
resume_arg_every_cycle(iteration, resume_from) == resume_from

\* `resume_from if iteration == 1 else None`
resume_arg(iteration, resume_from) == IF iteration = 1 THEN resume_from ELSE << >>

\* subprocess.run([..., "fetch_mesas.py"]) has returned
fetch_returned == fci = 0

\* faulty variant: the script is started and not waited for
returned_at_once == TRUE

\* subprocess.run([..., "download_actas.py", ...]) has returned
download_returned == pc = "idle"

InitMonitor ==
    /\ FirstSnapshot
    /\ args = << >>
    /\ ret = << >>
    /\ \E u \in BOOLEAN : \E r \in ResumeKeys :
          mon = [pc |-> "iterate", iteration |-> 0, update_mesas |-> u, resume_from |-> r]

\* `while True: iteration += 1`
MonIterate ==
    /\ mon.pc = "iterate"
    /\ budget.runs < MaxRuns
    /\ mon' = [mon EXCEPT !.iteration = @ + 1,
                          !.pc = IF mon.update_mesas THEN "fetch" ELSE "download"]
    /\ UNCHANGED << engine, args, ret >>

\* run_fetch_mesas_script: the script is started
MonRunFetch ==
    /\ mon.pc = "fetch"
    /\ fci = 0
    /\ fci' = 1
    /\ mon' = [mon EXCEPT !.pc = "fetch_wait"]
    /\ UNCHANGED << remote, mesas_data, registry_file, registry, actas, tmp,
                    actas_history, stats, resume_point, pc, ci, mi, is_new_file, clock,
                    last, fetched, prev, lost, budget, truncated, args, ret, malformed >>

\* the centros in the order of centros_data.json, which is the order of
\* DEPARTAMENTOS: by department code
FetchOrder ==
    CHOOSE s \in [1..Len(Centros) -> 1..Len(Centros)] :
        \A i, j \in 1..Len(Centros) :
            i < j => \/ Centros[s[i]].dept < Centros[s[j]].dept
                     \/ Centros[s[i]].dept = Centros[s[j]].dept /\ s[i] < s[j]

\* fetch_mesas.py, one centro: the answer is compared with the centro's
\* mesas.json and written back
FetchCentro ==
    /\ fci # 0
    /\ LET c == FetchOrder[fci]
       IN  /\ mesas_data' = [mesas_data EXCEPT
                                ![c] = compare_mesas(load_existing_mesas(c), remote[c])]
           /\ malformed' = malformed \ {c}
    /\ fci' = IF fci = Len(Centros) THEN 0 ELSE fci + 1
    /\ prev' = [prev EXCEPT !.quiet = FALSE]
    /\ UNCHANGED << remote, registry_file, registry, actas, tmp, actas_history, stats,
                    resume_point, pc, ci, mi, is_new_file, clock, last, fetched, lost,
                    budget, truncated, args, ret, mon >>

\* fetch_mesas.py is killed inside json.dump, after open(mesas_file, "w"):
\* the centro's mesas.json is left without a complete list
FetchKilled ==
    /\ fci # 0
    /\ budget.faults < MaxFaults
    /\ budget' = [budget EXCEPT !.faults = @ + 1]
    /\ mesas_data' = [mesas_data EXCEPT ![FetchOrder[fci]] = << >>]
    /\ malformed' = malformed \cup {FetchOrder[fci]}
    /\ fci' = 0
    /\ prev' = [prev EXCEPT !.quiet = FALSE]
    /\ UNCHANGED << remote, registry_file, registry, actas, tmp, actas_history, stats,
                    resume_point, pc, ci, mi, is_new_file, clock, last, fetched, lost,
                    truncated, args, ret, mon >>

MonFetchReturned ==
    /\ mon.pc = "fetch_wait"
    /\ fetch_returned
    /\ mon' = [mon EXCEPT !.pc = "download"]
    /\ UNCHANGED << engine, args, ret >>

\* run_download_script(resume_from if iteration == 1 else None): the script
\* is started
MonRunDownload ==
    /\ mon.pc = "download"
    /\ \/ Begin(parse_resume_point(resume_arg(mon.iteration, mon.resume_from)))
       \/ BeginFails
    /\ mon' = [mon EXCEPT !.pc = "download_wait"]

MonDownloadReturned ==
    /\ mon.pc = "download_wait"
    /\ download_returned
    /\ mon' = [mon EXCEPT !.pc = "sleep"]
    /\ UNCHANGED << engine, args, ret >>

\* the wait of check_interval_minutes
MonSleep ==
    /\ mon.pc = "sleep"
    /\ mon' = [mon EXCEPT !.pc = "iterate"]
    /\ UNCHANGED << engine, args, ret >>

NextMonitor ==
    \/ MonIterate
    \/ MonRunFetch
    \/ FetchCentro
    \/ FetchKilled
    \/ MonFetchReturned
    \/ MonRunDownload
    \/ MonDownloadReturned
    \/ MonSleep
    \/ Scan
    \/ ProcessMesa
    \/ DownloadOk
    \/ DownloadFailed
    \/ HashAndArchive
    \/ Place
    \/ SaveRegistry
    \/ SaveFinal
    \/ EndRun
    \/ Crash
    \/ \E c \in 1..Len(Centros) : \E m \in 1..Len(remote[c]) : \E u \in URLs :
          RemoteChange(c, m, u)

SpecMonitor == InitMonitor /\ [][NextMonitor]_vars

\* ---------------------------------------------------------------------
\* mark_existing_actas.py: the flags of the snapshots are reconciled with
\* the files of the actas directory.

\* runs of mark_existing_actas that are followed
MaxMark == 2

\* the `stats` dictionary of mark_existing_actas
MarkStats ==
    [total_mesas |-> 0, mesas_marked_false |-> 0, mesas_already_false |-> 0,
     mesas_left_true |-> 0, files_updated |-> 0]

\* names of actas/*.pdf that parse_acta_filename splits into five parts,
\* joined again with "-"
downloaded_actas == DOMAIN actas

\* f"{dept_code}-{muni_code}-{zona_code}-{centro_code}-{mesa_num}"
acta_id(c, zona, mesa) ==
    << Centros[c].dept, Centros[c].muni, zona, Centros[c].centro, mesa.numero >>

\* the identifier mark_existing_actas has for record m of centro c: none
\* (here << >>) when the first record of the snapshot carries no zona,
\* because the centro is then passed over (`if not zona_code: continue`)
derived_id(c, m) ==
    IF mesas_data[c][1].id_zona = NoPart
    THEN << >>
    ELSE acta_id(c, mesas_data[c][1].id_zona, mesas_data[c][m])

\* faulty variant: every table is taken to have its file
exists_anywhere(id) == TRUE

\* `acta_id in downloaded_actas`
exists_locally(id) == id \in downloaded_actas

\* `for mesa in mesas_list`, from record m on
RECURSIVE mark_mesas(_, _, _, _, _, _)
mark_mesas(c, zona, m, mesas_list, st, updated) ==
    IF m > Len(mesas_list)
    THEN [mesas_list |-> mesas_list, st |-> st, updated |-> updated]
    ELSE LET mesa == mesas_list[m]
             seen == Inc(st, "total_mesas")
         IN  IF exists_locally(acta_id(c, zona, mesa))
             THEN IF mesa.needs_download # FALSE
                  THEN mark_mesas(c, zona, m + 1,
                                  [mesas_list EXCEPT ![m] = WithFlag(mesa, FALSE)],
                                  Inc(seen, "mesas_marked_false"), TRUE)
                  ELSE mark_mesas(c, zona, m + 1, mesas_list,
                                  Inc(seen, "mesas_already_false"), updated)
             ELSE mark_mesas(c, zona, m + 1, mesas_list,
                             Inc(seen, "mesas_left_true"), updated)

\* body of the centro loop: a snapshot that does not parse, is empty or
\* whose first record carries no zona is left alone; the file is written
\* when a flag changed
mark_centro(c, data, st) ==
    IF c \in malformed \/ data[c] = << >> \/ data[c][1].id_zona = NoPart
    THEN [data |-> data, st |-> st]
    ELSE LET r == mark_mesas(c, data[c][1].id_zona, 1, data[c], st, FALSE)
         IN  IF r.updated
             THEN [data |-> [data EXCEPT ![c] = r.mesas_list],
                   st |-> Inc(r.st, "files_updated")]
             ELSE [data |-> data, st |-> r.st]

\* the folder loops, from centro c on
RECURSIVE mark_from(_, _, _)
mark_from(c, data, st) ==
    IF c > Len(Centros)
    THEN [data |-> data, st |-> st]
    ELSE LET r == mark_centro(c, data, st)
         IN  mark_from(c + 1, r.data, r.st)

\* one run of mark_existing_actas; ret keeps the summary of every run
MarkExisting ==
    /\ pc = "idle" /\ fci = 0
    /\ Len(ret) < MaxMark
    /\ LET r == mark_from(1, mesas_data, MarkStats)
       IN  /\ mesas_data' = r.data
           /\ ret' = Append(ret, r.st)
    /\ UNCHANGED << remote, registry_file, registry, actas, tmp, actas_history,
                    stats, resume_point, pc, ci, mi, is_new_file, clock, last,
                    fetched, prev, lost, budget, truncated, args, mon, fci,
                    malformed >>

\* snapshots of centro c: every combination of flags; the second centro
\* with and without a readable zona, and with the URL the files were
\* acquired from or a later one
SnapshotsOf(c) ==
    {[m \in 1..Len(SeveralTables(c)) |->
         [WithFlag(SeveralTables(c)[m], f[m]) EXCEPT !.id_zona = z,
                                                     !.nombre_archivo = u]] :
       f \in [1..Len(SeveralTables(c)) -> BOOLEAN],
       z \in IF c = 1 THEN {1} ELSE {1, NoPart},
       u \in IF c = 1 THEN {"A"} ELSE {"A", "B"}}

\* any of the tables has been acquired, by passes that ended normally
InitReconcile ==
    /\ remote = [c \in 1..Len(Centros) |-> SeveralTables(c)]
    /\ mesas_data \in {d \in [1..Len(Centros) -> UNION {SnapshotsOf(c) : c \in 1..Len(Centros)}] :
                         \A c \in 1..Len(Centros) : d[c] \in SnapshotsOf(c)}
    /\ clock = 0
    /\ \E T \in SUBSET Tables :
          LET keys == {KeyOf(cm[1], cm[2]) : cm \in T}
              at(k) == CHOOSE cm \in T : KeyOf(cm[1], cm[2]) = k
          IN  /\ actas = [k \in keys |-> Content("A")]
              /\ registry = [k \in keys |->
                               Entry(calculate_file_hash(Content("A")), "A", 1,
                                     mesas_data[at(k)[1]][at(k)[2]], at(k)[1])]
    /\ registry_file = registry
    /\ tmp = Empty /\ actas_history = Empty /\ stats = ZeroStats
    /\ resume_point = << >> /\ pc = "idle" /\ ci = 1 /\ mi = 1
    /\ is_new_file = FALSE /\ last = NoLast /\ fetched = {} /\ prev = NoPrev
    /\ lost = {} /\ budget = [changes |-> 0, runs |-> 0, faults |-> 0]
    /\ truncated = FALSE /\ args = << >> /\ ret = << >>
    /\ mon = MonOff /\ fci = 0 /\ malformed = {}

NextReconcile == MarkExisting

SpecReconcile == InitReconcile /\ [][NextReconcile]_vars


-----------------------------------------------------------------------------
(* Properties *)

InRun == pc # "idle"

\* the table whose processing `last` describes
LastKey == last.k[1]

\* history files of one table
HistoryOf(k) == {h \in DOMAIN actas_history : h[1] = k}

\* C1: a run that follows a completed run with nothing changed in between
\* fetches nothing and leaves versions, live files and history as they were.
\* Stated for the most favourable case: the first run had no failed fetch and
\* no resume point, and no process was ever killed.
C1_SecondRunIdle ==
    (InRun /\ prev.ended = "complete" /\ prev.quiet /\ prev.clean /\ budget.faults = 0)
        => /\ fetched = {}
           /\ actas = prev.actas
           /\ actas_history = prev.actas_history
           /\ pc = "summary" =>
                 /\ DOMAIN registry_file = DOMAIN prev.registry_file
                 /\ \A k \in DOMAIN registry_file :
                        registry_file[k].version = prev.registry_file[k].version

\* C2: a flagged table with a live file and a registry entry under another
\* URL, whose fetched bytes hash to the stored hash, ends as "unchanged":
\* staging file gone, registry entry, history and live file as before, and
\* unchanged_files one higher.
C2_HashGatedDedup ==
    (/\ InRun
     /\ last.outcome \in {"unchanged", "archived", "downloaded"}
     /\ LastKey \in DOMAIN last.reg
     /\ LastKey \in DOMAIN last.live
     /\ last.reg[LastKey].url # last.url
     /\ last.reg[LastKey].hash = calculate_file_hash(Content(last.url)))
        => /\ last.outcome = "unchanged"
           /\ LastKey \notin DOMAIN tmp
           /\ Only(registry, LastKey) = last.reg
           /\ actas_history = last.hist
           /\ Only(actas, LastKey) = last.live
           /\ stats.unchanged_files = last.stats.unchanged_files + 1
           /\ stats.downloaded = last.stats.downloaded

C2_Witness ==
    /\ InRun
    /\ last.outcome = "unchanged"
    /\ LastKey \in DOMAIN last.live
    /\ last.reg[LastKey].url # last.url

\* C3: updating a table that has a registry entry (version v, timestamp t)
\* and a live file, with bytes of another hash, leaves the entry at v + 1
\* with the new hash and URL, exactly one new history file, named v and t
\* and holding the old bytes, and the new bytes in the live file.
C3_UpdateCommit ==
    (/\ InRun
     /\ last.outcome = "downloaded"
     /\ LastKey \in DOMAIN last.reg
     /\ LastKey \in DOMAIN last.live)
        => LET old == last.reg[LastKey]
               path == HistoryPath(LastKey, old.version, old.last_updated)
           IN  /\ registry[LastKey].version = old.version + 1
               /\ registry[LastKey].hash = calculate_file_hash(Content(last.url))
               /\ registry[LastKey].url = last.url
               /\ (DOMAIN actas_history) \ (DOMAIN last.hist) = {path}
               /\ actas_history[path] = last.live[LastKey]
               /\ \A h \in DOMAIN last.hist : actas_history[h] = last.hist[h]
               /\ actas[LastKey] = Content(last.url)

\* versions named by the history files of k, with the current one, are
\* 1..current, each once
Contiguous(reg, k) ==
    /\ {h[2] : h \in HistoryOf(k)} = 1..(reg[k].version - 1)
    /\ Cardinality(HistoryOf(k)) = reg[k].version - 1

\* C4: between two table processings, for every key of the registry (the
\* file's when no process runs, the process's otherwise), the versions in
\* the key's history file names and the current version are exactly
\* 1..current, without gap or repeat.
C4_HistoryContiguous ==
    /\ pc = "idle" => \A k \in DOMAIN registry_file : Contiguous(registry_file, k)
    /\ pc \in {"scan", "mesa", "save", "final_save", "summary"} =>
          \A k \in DOMAIN registry : Contiguous(registry, k)

\* C5: a history file, once written, keeps its bytes for ever.
C5_HistoryNeverOverwritten ==
    [][\A h \in DOMAIN actas_history :
          h \in DOMAIN actas_history' /\ actas_history'[h] = actas_history[h]]_vars

\* C6: versions are integers >= 1; while a process runs, an entry's version
\* never decreases, and it changes only by +1, in the commit of a finished
\* download whose bytes hash differently from the stored hash; the saved
\* registry's versions never decrease either.
C6_Step ==
    /\ \A k \in DOMAIN registry :
          pc' # "idle" =>
             /\ k \in DOMAIN registry'
             /\ registry'[k].version >= registry[k].version
             /\ registry'[k].version # registry[k].version =>
                   /\ registry'[k].version = registry[k].version + 1
                   /\ pc = "place" /\ k = KeyOf(ci, mi)
                   /\ k \in DOMAIN tmp /\ tmp[k] = Content(mesas_data[ci][mi].nombre_archivo)
                   /\ registry[k].hash # calculate_file_hash(tmp[k])
    /\ \A k \in DOMAIN registry_file :
          ~truncated' =>
             /\ k \in DOMAIN registry_file'
             /\ registry_file'[k].version >= registry_file[k].version

C6_VersionMonotonic ==
    /\ [](\A k \in DOMAIN registry : registry[k].version \in Nat \ {0})
    /\ [](\A k \in DOMAIN registry_file : registry_file[k].version \in Nat \ {0})
    /\ [][C6_Step]_vars

C6_Witness == \E k \in DOMAIN registry_file : registry_file[k].version = 3

\* C7: the commit of a fetched file creates version 1 when the key has no
\* entry, leaves the entry as it is when the hash is the stored one, and
\* otherwise writes the new hash, the URL and the time with the old version
\* plus one.
C7_CommitSemantics ==
    (InRun /\ last.outcome \in {"unchanged", "archived", "downloaded"}) =>
        LET new_hash == calculate_file_hash(Content(last.url))
        IN  IF LastKey \notin DOMAIN last.reg
            THEN last.outcome = "downloaded"
                 /\ registry[LastKey].version = 1
                 /\ registry[LastKey].hash = new_hash
                 /\ registry[LastKey].url = last.url
            ELSE IF last.reg[LastKey].hash = new_hash
            THEN last.outcome = "unchanged" /\ Only(registry, LastKey) = last.reg
            ELSE IF last.outcome = "archived"
            THEN pc = "place" /\ Only(registry, LastKey) = last.reg
            ELSE last.outcome = "downloaded"
                 /\ registry[LastKey].hash = new_hash
                 /\ registry[LastKey].url = last.url
                 /\ registry[LastKey].last_updated = clock
                 /\ registry[LastKey].version = last.reg[LastKey].version + 1
                 /\ registry[LastKey].mesa_info = last.reg[LastKey].mesa_info

C7_Witness ==
    /\ InRun /\ last.outcome = "downloaded"
    /\ LastKey \in DOMAIN last.reg
    /\ registry[LastKey].version = 3
    /\ registry[LastKey].last_updated # last.reg[LastKey].last_updated

\* C8: after a failed fetch the table's live file, history and registry
\* entry are as before, no staging file is left, failed is one higher, and
\* the run has moved on (it is at the next table, centro or save).
C8_FetchFailureLocal ==
    (InRun /\ last.outcome = "failed") =>
        /\ Only(actas, LastKey) = last.live
        /\ actas_history = last.hist
        /\ Only(registry, LastKey) = last.reg
        /\ LastKey \notin DOMAIN tmp
        /\ stats.failed = last.stats.failed + 1
        /\ stats.errors = last.stats.errors
        /\ pc \in {"mesa", "scan", "save", "final_save", "summary"}
        /\ pc = "mesa" => KeyOf(ci, mi) # LastKey

\* a fetch failed in this run and a later table was then downloaded
C8_Witness ==
    /\ InRun
    /\ stats.failed = 1
    /\ last.outcome = "downloaded"
    /\ stats.downloaded = 1

\* C9: a live file gets new bytes only from the rename of the staging file
\* that download_file has written completely, and no step taken while a
\* fetch is in progress (the kill of the process included) touches a live file.
C9_Step ==
    /\ \A k \in DOMAIN actas' :
          (k \notin DOMAIN actas \/ actas'[k] # actas[k]) =>
             /\ pc = "place"
             /\ k \in DOMAIN tmp /\ k \notin DOMAIN tmp'
             /\ actas'[k] = tmp[k]
             /\ tmp[k] # Partial
             /\ tmp[k] = Content(mesas_data[ci][mi].nombre_archivo)
    /\ pc = "download" => actas' = actas

C9_StagingOnly == [][C9_Step]_vars

\* a live file that existed was replaced from the staging file
C9_Witness ==
    /\ InRun /\ last.outcome = "downloaded"
    /\ LastKey \in DOMAIN last.live
    /\ actas[LastKey] # last.live[LastKey]

\* C10: a run restarted after a kill, with the same metadata, does not fetch
\* a table that the killed run had committed to storage (its registry update
\* was not saved) and whose live file holds the bytes of the current URL.
C10_RestartNoRefetch ==
    (prev.ended = "crashed" /\ prev.quiet /\ pc = "download") =>
        ~ (/\ KeyOf(ci, mi) \in lost
           /\ KeyOf(ci, mi) \in DOMAIN actas
           /\ actas[KeyOf(ci, mi)] = Content(mesas_data[ci][mi].nombre_archivo))

\* the municipio (dept, muni) a key belongs to
MuniOf(k) == << k[1], k[2] >>

\* keys whose entry in the process differs from the saved one
Unsaved == {k \in DOMAIN registry :
               k \notin DOMAIN registry_file \/ registry_file[k] # registry[k]}

\* C11: the registry is saved after every municipio and once more at the
\* end: while a run is inside a municipio only keys of that municipio are
\* unsaved, at the summary nothing is unsaved, and what a kill at any point
\* leaves missing from the saved registry are updates of the municipio that
\* was in progress only.
C11_FlushCadence ==
    /\ InRun => \A k \in Unsaved : MuniOf(k) = << Centros[ci].dept, Centros[ci].muni >>
    /\ pc = "summary" => registry_file = registry
    /\ \A k \in lost : MuniOf(k) = prev.muni

\* the table `last` describes was flagged and passed the resume check
LastWasDue == last.outcome \notin {"none", "not_flagged", "before_resume"}

\* C12: a flagged table whose live file exists and whose registry entry
\* holds the record's URL is not fetched; its registry entry, its live file
\* and the history area stay as they are and skipped is one higher.
C12_CaseASkip ==
    (/\ InRun /\ LastWasDue
     /\ LastKey \in DOMAIN last.live
     /\ LastKey \in DOMAIN last.reg
     /\ last.reg[LastKey].url = last.url)
        => /\ last.outcome = "current"
           /\ LastKey \notin fetched
           /\ Only(registry, LastKey) = last.reg
           /\ Only(actas, LastKey) = last.live
           /\ actas_history = last.hist
           /\ stats.skipped = last.stats.skipped + 1
           /\ stats.downloaded = last.stats.downloaded
           /\ stats.unchanged_files = last.stats.unchanged_files

\* the second table of a run was skipped as current
C12_Witness ==
    /\ InRun /\ last.outcome = "current"
    /\ last.stats.skipped = 1
    /\ last.reg[LastKey].version = 2

\* C13: a flagged table whose live file exists and that has no registry
\* entry is not fetched; the live file stays as it is and the registry gets
\* an entry with version 1, the hash of that file and the record's URL.
C13_CaseCAdoption ==
    (/\ InRun /\ LastWasDue
     /\ LastKey \in DOMAIN last.live
     /\ LastKey \notin DOMAIN last.reg)
        => /\ last.outcome = "adopted"
           /\ LastKey \notin fetched
           /\ Only(actas, LastKey) = last.live
           /\ actas_history = last.hist
           /\ registry[LastKey].version = 1
           /\ registry[LastKey].hash = calculate_file_hash(last.live[LastKey])
           /\ registry[LastKey].url = last.url

\* a file whose bytes are not those behind the record's URL was adopted
C13_Witness ==
    /\ InRun /\ last.outcome = "adopted"
    /\ last.live[LastKey] # Content(last.url)

\* C14: a flagged table without registry entry and without live file, whose
\* fetch succeeds (and whose rename the filesystem does not refuse), ends with a registry entry of version 1 holding the hash
\* of the fetched bytes and the record's URL, one live file with those
\* bytes, no staging file and no history file of that table.
C14_FirstAcquisition ==
    (/\ InRun /\ LastWasDue
     /\ LastKey \notin DOMAIN last.live
     /\ LastKey \notin DOMAIN last.reg
     /\ last.outcome \notin {"pending", "failed", "error"})
        => /\ last.outcome = "downloaded"
           /\ registry[LastKey].version = 1
           /\ registry[LastKey].hash = calculate_file_hash(Content(last.url))
           /\ registry[LastKey].url = last.url
           /\ LastKey \in DOMAIN actas /\ actas[LastKey] = Content(last.url)
           /\ LastKey \notin DOMAIN tmp
           /\ HistoryOf(LastKey) = {}
           /\ stats.downloaded = last.stats.downloaded + 1

C14_Witness ==
    /\ InRun /\ last.outcome = "downloaded"
    /\ LastKey \notin DOMAIN last.live
    /\ LastKey \notin DOMAIN last.reg
    /\ registry[LastKey].url = "B"

\* flagged tables that the previous run left acquired under their URL
AcquiredBefore ==
    {cm \in Tables :
        LET mesa == mesas_data[cm[1]][cm[2]]
            key == KeyOf(cm[1], cm[2])
        IN  /\ mesa.needs_download
            /\ key \in DOMAIN prev.actas
            /\ key \in DOMAIN prev.registry_file
            /\ prev.registry_file[key].url = mesa.nombre_archivo}

\* C15: the summary of a run that follows a completed run, with the same
\* metadata, counts every table the first run acquired as unchanged
\* (unchanged_files is at least their number), with no download and the saved
\* registry as the first run left it.
C15_RerunSummary ==
    (/\ pc = "summary" /\ prev.ended = "complete" /\ prev.quiet /\ prev.clean
     /\ budget.faults = 0)
        => /\ stats.unchanged_files >= Cardinality(AcquiredBefore)
           /\ stats.downloaded = 0
           /\ registry_file = prev.registry_file

\* content URL, published, tallied or digitized differ
Differs(o, n) ==
    \/ o.nombre_archivo # n.nombre_archivo
    \/ o.publicada # n.publicada
    \/ o.escrutado # n.escrutado
    \/ o.digitalizado # n.digitalizado

\* positions of the previous snapshot that hold table number `numero`
Occurrences(old, numero) == {j \in 1..Len(old) : old[j].numero = numero}

\* C16: compare_mesas returns the new records in their order, each flagged:
\* TRUE for every record when there is no previous snapshot, TRUE for a
\* number the previous snapshot does not hold, and for a number it holds
\* (once) TRUE exactly when URL, publicada, escrutado or digitalizado differ
\* from the previous record.
C16_ChangeDetection ==
    ret # << >> =>
        LET old == args.old_mesas
            new == args.new_mesas
            out == ret[1]
        IN  /\ Len(out) = Len(new)
            /\ \A i \in 1..Len(new) :
                  LET occ == Occurrences(old, new[i].numero)
                  IN  /\ out[i] = WithFlag(new[i], out[i].needs_download)
                      /\ old = << >> => out[i].needs_download
                      /\ occ = {} => out[i].needs_download
                      /\ Cardinality(occ) = 1 =>
                            (out[i].needs_download <=>
                                \E j \in occ : Differs(old[j], new[i]))

\* a record that differs from its previous record in escrutado only
C16_Witness ==
    /\ ret # << >>
    /\ Len(args.old_mesas) = 2
    /\ args.old_mesas[1].numero # args.old_mesas[2].numero
    /\ args.new_mesas[1].numero = args.old_mesas[2].numero
    /\ args.new_mesas[1].nombre_archivo = args.old_mesas[2].nombre_archivo
    /\ args.new_mesas[1].escrutado # args.old_mesas[2].escrutado
    /\ ret[1][1].needs_download

\* C17: a new record whose number occurs more than once in the previous
\* snapshot is compared with the first of these occurrences.
C17_FirstOccurrence ==
    ret # << >> =>
        \A i \in 1..Len(args.new_mesas) :
            LET occ == Occurrences(args.old_mesas, args.new_mesas[i].numero)
            IN  occ # {} =>
                   LET first == CHOOSE j \in occ : \A k \in occ : j <= k
                   IN  ret[1][i].needs_download
                          <=> Differs(args.old_mesas[first], args.new_mesas[i])

\* the five components of the record the resume check is asked about
ArgKey ==
    << args.dept_code, args.municipio_code, args.zona_code, args.centro_code,
       args.mesa_numero >>

\* components the resume string specifies
Specified == {i \in 1..Len(args.resume_from) : args.resume_from[i] # NoPart}

\* specified components in which the record differs from the resume point
Differing == {i \in Specified : ArgKey[i] # args.resume_from[i]}

\* C18: for a resume point that is a prefix of a key, the resume check
\* answers skip when the record's component is less than the resume point's
\* at the first specified position where they differ, no skip when it is
\* greater, skip when all five components are specified and equal, and no
\* skip when the record equals a resume point of fewer than five components
\* or when there is no resume point.
C18_SkipPredicate ==
    (ret # << >> /\ Specified = 1..Len(args.resume_from)) =>
        IF Differing # {}
        THEN LET i == CHOOSE i \in Differing : \A j \in Differing : i <= j
             IN  ret[1] <=> ArgKey[i] < args.resume_from[i]
        ELSE ret[1] <=> Specified = 1..5

\* tables the run does not pass over: flagged, with a number and a URL
Flagged ==
    {cm \in Tables : LET mesa == mesas_data[cm[1]][cm[2]]
                     IN  mesa.needs_download /\ mesa.nombre_archivo # ""
                         /\ mesa.numero # 0}

\* the record of the snapshots stored under a key
TableOf(key) == CHOOSE cm \in Tables : KeyOf(cm[1], cm[2]) = key

\* x is visited after y
VisitedAfter(x, y) == x[1] > y[1] \/ (x[1] = y[1] /\ x[2] > y[2])

\* C19: in a run resumed at the full key R of a flagged table, a flagged
\* table passes the resume check exactly when it is visited after R.
C19_ResumeSuffix ==
    (/\ InRun /\ last.outcome \notin {"none", "not_flagged"}
     /\ resume_point # << >>
     /\ \E cm \in Flagged : KeyOf(cm[1], cm[2]) = resume_point)
        => (last.outcome # "before_resume"
               <=> VisitedAfter(TableOf(LastKey), TableOf(resume_point)))

\* C20: a table is skipped because of the resume point only while no table
\* of the run has passed the resume check (last_processed is set by the
\* first table that passes).
C20_ResumeExhausted ==
    (InRun /\ last.outcome = "before_resume") => last.stats.last_processed = << >>

\* key a is before key b: component by component, codes and numbers by value
KeyLess(a, b) ==
    \E i \in 1..5 : a[i] < b[i] /\ \A j \in 1..(i - 1) : a[j] = b[j]

\* C21: the key of the table a run is about to process is greater than the
\* key of every table the run has visited before it.
C21_TraversalAscending ==
    (InRun /\ pc = "mesa") =>
        \A cm \in Tables :
            VisitedAfter(<< ci, mi >>, cm) => KeyLess(KeyOf(cm[1], cm[2]), KeyOf(ci, mi))

\* C22: the synchronization pass the monitor started runs with the resume
\* point given to the monitor in the first cycle, and with none in every
\* later cycle.
C22_ResumeFirstCycleOnly ==
    (mon.pc = "download_wait" /\ InRun) =>
        resume_point = IF mon.iteration = 1
                       THEN parse_resume_point(mon.resume_from) ELSE << >>

\* a pass of the second cycle of a monitor that was given a resume point
C22_Witness ==
    /\ mon.pc = "download_wait" /\ InRun
    /\ mon.iteration = 2
    /\ mon.resume_from # << >>
    /\ resume_point = << >>

\* C23: the refresh runs only while the monitor waits for it and no pass
\* runs; a pass runs only while the monitor waits for it and no refresh
\* runs: the monitor takes no step of its own, of this cycle or the next,
\* while a script it started is running.
C23_CyclesSequential ==
    /\ fci # 0 => (mon.pc = "fetch_wait" /\ pc = "idle")
    /\ pc # "idle" => (mon.pc = "download_wait" /\ fci = 0)

\* the pass of the second cycle runs, after that cycle's refresh
C23_Witness ==
    /\ mon.update_mesas /\ mon.iteration = 2
    /\ mon.pc = "download_wait" /\ pc = "mesa"

\* the run is at a table of the site it is in
AtTable == pc \in {"mesa", "download", "hash", "place"}

\* the traversal does not go back: not to an earlier site, and within a
\* site not to an earlier table
C24_Step ==
    (InRun /\ pc' # "idle") =>
        /\ ci' >= ci
        /\ (ci' = ci /\ AtTable') => (pc = "scan" \/ (AtTable /\ mi' >= mi))

\* C24: within a run no table is handed to download_file twice (a table
\* whose fetch failed included: the run is past it), the traversal only
\* moves forward, and the run ends.
C24_NoRetry ==
    /\ [](pc = "download" => KeyOf(ci, mi) \notin fetched)
    /\ [](last.outcome = "failed" =>
             (pc # "download" /\ (pc = "mesa" => KeyOf(ci, mi) # LastKey)))
    /\ [][C24_Step]_vars
    /\ (InRun ~> ~InRun)

\* a run in which a fetch failed has reached its summary
C24_Witness == pc = "summary" /\ stats.failed = 1 /\ stats.downloaded = 3

\* the reconciler's identifier of a table is in the actas directory
Present(cm) ==
    /\ mesas_data[cm[1]][1].id_zona # NoPart
    /\ acta_id(cm[1], mesas_data[cm[1]][1].id_zona, mesas_data[cm[1]][cm[2]])
          \in DOMAIN actas

\* C25: a run of mark_existing_actas leaves every snapshot with a false
\* flag on each record whose identifier is in the actas directory and
\* changes nothing else: absent records and all other fields are as
\* before, and so are the files; its summary counts the records it set to
\* false apart from those that were false already; a run that follows
\* another changes no snapshot and corrects nothing.
C25_Step ==
    (Len(ret') = Len(ret) + 1) =>
        /\ \A c \in 1..Len(Centros) : Len(mesas_data'[c]) = Len(mesas_data[c])
        /\ \A cm \in Tables :
              LET old == mesas_data[cm[1]][cm[2]]
                  new == mesas_data'[cm[1]][cm[2]]
              IN  /\ Present(cm) => new = WithFlag(old, FALSE)
                  /\ ~Present(cm) => new = old
        /\ ret'[Len(ret')].mesas_marked_false =
              Cardinality({cm \in Tables : Present(cm)
                                           /\ mesas_data[cm[1]][cm[2]].needs_download})
        /\ ret'[Len(ret')].mesas_already_false =
              Cardinality({cm \in Tables : Present(cm)
                                           /\ ~mesas_data[cm[1]][cm[2]].needs_download})
        /\ actas' = actas /\ registry' = registry /\ registry_file' = registry_file
        /\ actas_history' = actas_history /\ tmp' = tmp
        /\ Len(ret) >= 1 =>
              /\ mesas_data' = mesas_data
              /\ ret'[Len(ret')].mesas_marked_false = 0
              /\ ret'[Len(ret')].files_updated = 0

C25_Reconciler == [][C25_Step]_vars

\* two runs, the first of which corrected a flag, found one already false
\* and left a table without a file alone
C25_Witness ==
    /\ Len(ret) = 2
    /\ ret[1].mesas_marked_false >= 1
    /\ ret[1].mesas_already_false >= 1
    /\ ret[1].mesas_left_true >= 1
    /\ ret[2].mesas_already_false >= 2

\* C26: the key a run reports at its end as last processed is not the key
\* of a table whose fetch failed in that run.
C26_ReportedKey ==
    (pc = "summary" /\ last.outcome = "failed") =>
        stats.last_processed # << LastKey >>

\* C27: when the move of the old file to history or the rename of the
\* staging file fails, the table is left as a failed fetch leaves it: the
\* live file and the registry entry it had, no staging file, one more
\* failure counted, and the run goes on with the next table of the site.
C27_Step ==
    (last'.outcome = "error" /\ last.outcome # "error") =>
        /\ Only(actas', LastKey) = last.live
        /\ Only(registry', LastKey) = last.reg
        /\ LastKey \notin DOMAIN tmp'
        /\ stats'.failed = stats.failed + 1
        /\ mi < Len(mesas_data[ci]) => (pc' = "mesa" /\ ci' = ci /\ mi' = mi + 1)

C27_RenameFailure == [][C27_Step]_vars

\* C28: the process exits with 0 when the traversal was completed, whatever
\* failures it counted, and with another status when the mesas_data
\* directory or municipios_data.json is missing.
C28_ExitStatus ==
    ret # << >> =>
        /\ scan_outcome(args) = "summary" => ret[1] = 0
        /\ (args.mesas_data = "missing" \/ args.municipios_data = "missing") =>
              ret[1] # 0

\* C29: while actas_registry.json exists and does not parse, a start of
\* scan_and_download_actas ends before the traversal: no run is under way,
\* nothing is fetched, and the live files, the history files, the staging
\* files and the registry file stay as they are.
C29_Step ==
    truncated =>
        /\ pc' = "idle"
        /\ fetched' = fetched
        /\ actas' = actas /\ actas_history' = actas_history /\ tmp' = tmp
        /\ registry_file' = registry_file /\ truncated'

C29_RegistryCorruptionFatal == [][C29_Step]_vars

\* a start was refused on an unreadable registry, with a live file in place
C29_Witness == truncated /\ prev.ended = "aborted" /\ actas # Empty

\* C30: a site whose mesas.json does not parse is skipped as a whole: the
\* run counts one error, is never at a table of that site, changes no
\* registry entry and no file on passing it, and goes on with the
\* traversal; at the summary every table of the readable sites has been
\* counted.
C30_Step ==
    (pc = "scan" /\ ci \in malformed /\ pc' # "idle") =>
        /\ stats'.errors = stats.errors + 1
        /\ registry' = registry /\ registry_file' = registry_file
        /\ actas' = actas /\ actas_history' = actas_history /\ tmp' = tmp
        /\ IF LastOfMuni(ci) THEN pc' = "save" /\ ci' = ci
                             ELSE pc' = "scan" /\ ci' = ci + 1

C30_ParseFailureLocal ==
    /\ [](AtTable => ci \notin malformed)
    /\ [][C30_Step]_vars
    /\ [](pc = "summary" =>
             stats.total_mesas = Cardinality({cm \in Tables : cm[1] \notin malformed}))

\* a run has passed an unreadable snapshot, the first of the traversal, and
\* downloaded a table of the site after it
C30_Witness ==
    /\ pc = "summary" /\ malformed = {1}
    /\ stats.errors = 1 /\ stats.downloaded = 1

\* C31: a key that has a registry entry keeps one: the registry of a run
\* loses no key while the run goes on, and the registry file loses no key
\* from one state to the next, whatever runs and processings follow.
C31_Step ==
    /\ (InRun /\ InRun') => DOMAIN registry \subseteq DOMAIN registry'
    /\ DOMAIN registry_file \subseteq DOMAIN registry_file'

C31_EntriesNeverDeleted == [][C31_Step]_vars

\* C32: with the refresh enabled, a table whose fetch failed in the pass of
\* one cycle, and whose URL at the server is still the one that was tried,
\* is flagged when the pass of the next cycle is about to start.
C32_PendingKept ==
    (/\ mon.update_mesas /\ mon.pc = "download" /\ mon.iteration >= 2
     /\ last.outcome = "failed" /\ malformed = {})
        => \A cm \in Tables :
              (/\ KeyOf(cm[1], cm[2]) = LastKey
               /\ remote[cm[1]][cm[2]].nombre_archivo = last.url)
                  => mesas_data[cm[1]][cm[2]].needs_download

\* C33: when a flagged table has been finished as current, adopted,
\* unchanged or downloaded (not failed, not an error), its live file exists
\* and the hash of its registry entry is the hash of that file.
C33_PostCommitConsistency ==
    (InRun /\ last.outcome \in {"current", "adopted", "unchanged", "downloaded"}) =>
        /\ LastKey \in DOMAIN actas
        /\ LastKey \in DOMAIN registry
        /\ registry[LastKey].hash = calculate_file_hash(actas[LastKey])

\* C34: a run of mark_existing_actas leaves the flag of a table set when
\* the URL of its snapshot record is not the URL that the registry holds
\* for its live file.
C34_Step ==
    (Len(ret') = Len(ret) + 1) =>
        \A cm \in Tables :
            LET key == KeyOf(cm[1], cm[2])
                mesa == mesas_data[cm[1]][cm[2]]
            IN  (/\ mesa.needs_download
                 /\ key \in DOMAIN actas /\ key \in DOMAIN registry
                 /\ registry[key].url # mesa.nombre_archivo)
                    => mesas_data'[cm[1]][cm[2]].needs_download

C34_PendingUpdateKept == [][C34_Step]_vars

\* C35: when the process is interrupted in save_file_registry, the registry
\* file afterwards is readable and holds the map that was flushed before
\* or the map that was being written.
C35_Step ==
    (pc \in {"save", "final_save"} /\ pc' = "idle") =>
        /\ ~truncated'
        /\ registry_file' \in {registry_file, registry}

C35_FlushAllOrNothing == [][C35_Step]_vars

\* C36: for a resume point of five components and a table of the same
\* site, the resume check answers skip exactly when the table's number is
\* at most the resume point's number, as integers.
C36_NumericOrder ==
    (/\ ret # << >>
     /\ Len(args.resume_from) = 5 /\ Specified = 1..5
     /\ \A i \in 1..4 : ArgKey[i] = args.resume_from[i])
        => (ret[1] <=> args.mesa_numero <= args.resume_from[5])

\* C37: for every table of every site, the identifier mark_existing_actas
\* has derived from the snapshot in a run is the name under which download_actas.py
\* stores the table's live file, also where the first record of the site
\* carries no readable zona.
C37_SameIdentity ==
    Len(ret) >= 1 =>
        \A cm \in Tables : derived_id(cm[1], cm[2]) = KeyOf(cm[1], cm[2])

\* records the run counts: those with a number and a URL
Counted ==
    {cm \in Tables : mesas_data[cm[1]][cm[2]].nombre_archivo # ""
                     /\ mesas_data[cm[1]][cm[2]].numero # 0}

\* tables the four counters account for
Accounted ==
    stats.skipped + stats.downloaded + stats.unchanged_files + stats.failed

\* C38: in a run without an exception every record with a number and a URL
\* is counted once in skipped, downloaded, unchanged_files or failed: when
\* the run comes to a table the four counters add up to the number of
\* tables before it, and at the summary to the number of all tables; and
\* at the summary new_files + updated_urls is the number of fetch attempts,
\* downloaded + unchanged_files + failed.
C38_CountersPartition ==
    /\ (pc = "mesa" /\ stats.errors = 0) =>
          Accounted = Cardinality({cm \in Counted :
                                      \/ cm[1] < ci
                                      \/ cm[1] = ci /\ cm[2] < mi})
    /\ (pc = "summary" /\ stats.errors = 0) =>
          /\ Accounted = Cardinality(Counted)
          /\ stats.new_files + stats.updated_urls =
                stats.downloaded + stats.unchanged_files + stats.failed

\* a run has ended with a failed table, a skipped one, and no exception
C38_Witness ==
    /\ pc = "summary" /\ stats.errors = 0
    /\ stats.failed = 1 /\ stats.skipped = 1

\* C39: no step of a run of download_actas.py, from its start to its end
\* or its kill, changes a snapshot: the records of every mesas.json, their
\* needs_download flags included, and the files that do not parse stay as
\* they are, whatever becomes of the table.
C39_Step ==
    (InRun \/ InRun') => (mesas_data' = mesas_data /\ malformed' = malformed)

C39_SnapshotsReadOnly == [][C39_Step]_vars

\* a table has been downloaded and its record is flagged as before
C39_Witness ==
    /\ InRun /\ last.outcome = "downloaded"
    /\ \E cm \in Tables : /\ KeyOf(cm[1], cm[2]) = LastKey
                          /\ mesas_data[cm[1]][cm[2]].needs_download
                          /\ LastKey \in DOMAIN actas

====
